---- MODULE Spec2Model ----
(***************************************************************************)
(* Verification model of the Smart City Transportation Optimization        *)
(* System: the DP vehicle allocation (algorithms/dp_schedule.py), the      *)
(* shortest-path searches (algorithms/dijkstra.py, time_dijkstra.py,       *)
(* a_star.py), the transfer-point identification (dp_schedule.py,          *)
(* utils/helpers.py), the road graph of build_map (utils/helpers.py), the  *)
(* MST view (algorithms/mst.py) and the transit route finder with its      *)
(* route details (controller/controller.py).                               *)
(***************************************************************************)
EXTENDS Integers, Sequences, FiniteSets, TLC

(***************************************************************************)
(* Bounds of the model.                                                    *)
(***************************************************************************)
MaxRoutes == 2
MaxValue == 2
MaxUnits == 12
MaxPerRoute == 11
MaxEdges == 3
MaxWeight == 3
MaxCoord == 2
MaxHospitals == 2
MaxTokens == 5
MaxRoads == 2

(***************************************************************************)
(* Program constants.                                                      *)
(***************************************************************************)
\* the diminishing-returns cap of value * min(alloc, 10)
ReturnsCap == 10
\* float('infinity'), above every finite total of the model
Inf == 1000000
\* the base speed in km/h and the factor of the A* heuristic
BaseSpeed == 60
HeuristicScale == 50
\* the defaults of edge_data.get('condition', 10) and of condition_weight (in tenths)
DefaultConditionWeight == 3

VARIABLES
    \* ---- PublicTransitOptimizer._dp_allocate ----
    values,         \* the list of (route_id, value) pairs
    max_units,
    min_units,
    max_per_route,
    dp,             \* the table dp[i][u]
    allocation,     \* the dict route_id -> units
    remaining,      \* the running budget of the backtracking
    ai,             \* the loop index i of the running loop
    apc             \* "table", "backtrack", "done"

allocVars == <<values, max_units, min_units, max_per_route, dp, allocation, remaining, ai, apc>>

VARIABLES
    \* ---- dijkstra_shortest_path, time_dijkstra, a_star ----
    graph,          \* the edges of the nx.Graph: {a, b} -> its attributes
    algo,           \* "dijkstra", "time_dijkstra" or "a_star"
    opts,           \* consider_road_condition, time_of_day, avoid_congestion
    node_positions, \* node -> coordinates, None where the table has no entry
    start,
    goal,           \* the parameter end of the Dijkstra functions, goal of a_star
    distances,      \* Dijkstra: distances; a_star: g_score
    previous,       \* Dijkstra: previous; a_star: came_from
    pq,             \* Dijkstra: pq; a_star: open_set (the heap, as a set of tuples)
    result          \* the outcome of the call

searchVars == <<graph, algo, opts, node_positions, start, goal, distances, previous, pq, result>>

VARIABLES
    \* ---- find_nearest_hospital ----
    hospitals,      \* the rows of the hospitals table: ID and Name
    hi,             \* the row the loop is at
    best,           \* best_path, min_cost, best_hospital
    calls,          \* what a_star has returned for the rows so far, by row
    hpc             \* "loop", "a_star", "done"

hospVars == <<hospitals, hi, best, calls, hpc>>

VARIABLES
    \* ---- PublicTransitOptimizer.__init__ and load_transit_data ----
    valid_nodes,    \* the ids of the neighbourhoods and facilities
    raw_bus,        \* the Stops cells of the bus-route table, as read
    raw_metro,      \* the Stations cells of the metro-line table, as read
    bus_routes,     \* the Stops cells of the validated bus routes
    metro_lines,    \* the Stations cells of the validated metro lines
    bus_stops,
    metro_stations,
    transfer_points,
    tmode,          \* "constructor" (tables given) or "load" (load_transit_data)
    network,        \* self.network: stop pair -> the edges between the two stops
    tpc             \* "validate", "identify", "bus", "metro", "finish", "done", "raised",
                    \* "network"

transitVars == <<valid_nodes, raw_bus, raw_metro, bus_routes, metro_lines,
                 bus_stops, metro_stations, transfer_points, tmode, network, tpc>>

VARIABLES
    \* ---- build_map ----
    neighborhoods,  \* the ids of the rows of the neighbourhood table
    facilities,     \* the ids of the rows of the facility table
    roads,          \* the caller's road table
    scenario,       \* "" for None
    show_facilities,
    built_nodes,    \* graph.nodes() of the graph the last call returned
    built_graph,    \* its edges: {a, b} -> distance
    prev_graph,     \* the edges of the graph the call before returned
    chosen,         \* the edge one endpoint of which the caller removes
    removed,        \* that endpoint
    mpc             \* "call", "built", "recall", "rebuilt"

mapVars == <<neighborhoods, facilities, roads, scenario, show_facilities,
             built_nodes, built_graph, prev_graph, chosen, removed, mpc>>

\* the MST view of algorithms/mst.py
VARIABLES mst_graph, prim_nodes, visited, frontier, prim_mst, total_dist, mstpc
mstVars == <<mst_graph, prim_nodes, visited, frontier, prim_mst, total_dist, mstpc>>

\* find_transit_route of controller/controller.py
VARIABLES schedules, source, destination, prefer_metro, minimize_transfers,
          transit_graph, path, steps, total_travel_time, total_waiting_time,
          total_cost, num_transfers, current_line, current_mode,
          stops_in_current_metro_journey, rpc
routeVars == <<schedules, source, destination, prefer_metro, minimize_transfers,
               transit_graph, path, steps, total_travel_time, total_waiting_time,
               total_cost, num_transfers, current_line, current_mode,
               stops_in_current_metro_journey, rpc>>

vars == <<allocVars, searchVars, hospVars, transitVars, mapVars, mstVars, routeVars>>

\* what an action of one component leaves alone: the other components
AllocFrame == UNCHANGED <<searchVars, hospVars, transitVars, mapVars, mstVars, routeVars>>

SearchFrame == UNCHANGED <<allocVars, hospVars, transitVars, mapVars, mstVars, routeVars>>

HospitalFrame == UNCHANGED <<allocVars, transitVars, mapVars, mstVars, routeVars>>

TransitFrame == UNCHANGED <<allocVars, searchVars, hospVars, mapVars, mstVars, routeVars>>

MapFrame == UNCHANGED <<allocVars, searchVars, hospVars, transitVars, mstVars, routeVars>>

MstFrame == UNCHANGED <<allocVars, searchVars, hospVars, transitVars, mapVars, routeVars>>

RouteFrame == UNCHANGED <<allocVars, searchVars, hospVars, transitVars, mapVars, mstVars>>

\* Python's None, as a value no node id, coordinate or total equals
None == 0 - 1

\* no call of _dp_allocate is in progress
AllocIdle ==
    /\ values = <<>> /\ max_units = 0 /\ min_units = 0 /\ max_per_route = 0
    /\ dp = <<>> /\ allocation = <<>> /\ remaining = 0 /\ ai = 0 /\ apc = "idle"

\* no search is in progress
SearchIdle ==
    /\ graph = <<>> /\ algo = "none" /\ opts = <<>> /\ node_positions = <<>>
    /\ start = None /\ goal = None /\ distances = <<>> /\ previous = <<>>
    /\ pq = {} /\ result = [kind |-> "idle", has_path |-> FALSE, path |-> <<>>, cost |-> 0]

\* best_path = None, min_cost = float('inf'), best_hospital = None
NoHospital == [has_path |-> FALSE, path |-> <<>>, cost |-> Inf, name |-> None]

\* no call of find_nearest_hospital is in progress
HospitalIdle ==
    /\ hospitals = <<>> /\ hi = 0 /\ best = NoHospital /\ calls = <<>> /\ hpc = "idle"

\* no optimizer is being constructed
TransitIdle ==
    /\ valid_nodes = {} /\ raw_bus = <<>> /\ raw_metro = <<>>
    /\ bus_routes = <<>> /\ metro_lines = <<>>
    /\ bus_stops = {} /\ metro_stations = {} /\ transfer_points = {}
    /\ tmode = "none" /\ network = <<>> /\ tpc = "idle"

\* no map is being built
MapIdle ==
    /\ neighborhoods = {} /\ facilities = {} /\ roads = <<>> /\ scenario = ""
    /\ show_facilities = FALSE /\ built_nodes = {} /\ built_graph = <<>>
    /\ prev_graph = <<>> /\ chosen = {} /\ removed = None /\ mpc = "idle"

MstIdle ==
    /\ mst_graph = <<>> /\ prim_nodes = {} /\ visited = {} /\ frontier = {}
    /\ prim_mst = {} /\ total_dist = 0 /\ mstpc = "idle"

\* sum(f[k] for k in S)
RECURSIVE SumOver(_, _)
SumOver(f, S) ==
    IF S = {} THEN 0
    ELSE LET k == CHOOSE x \in S : TRUE IN f[k] + SumOver(f, S \ {k})

RouteIdle ==
    /\ schedules = <<>> /\ source = None /\ destination = None
    /\ prefer_metro = FALSE /\ minimize_transfers = FALSE
    /\ transit_graph = <<>> /\ path = <<>> /\ steps = <<>>
    /\ total_travel_time = 0 /\ total_waiting_time = 0 /\ total_cost = 0
    /\ num_transfers = 0 /\ current_line = "" /\ current_mode = ""
    /\ stops_in_current_metro_journey = 0 /\ rpc = "idle"

Min(a, b) == IF a < b THEN a ELSE b

Max(a, b) == IF a > b THEN a ELSE b

(***************************************************************************)
(* The road graph and the inputs of the searches                           *)
(***************************************************************************)
\* the node ids of the graph; AbsentNode is an id the graph does not hold
Nodes == {1, 2, 3, 4}

AbsentNode == Cardinality(Nodes) + 1

\* the unordered node pairs an edge can link
NodePairs == {{a, b} : a, b \in Nodes} \ {{a} : a \in Nodes}

\* the sample condition scores (1..10) of the roads
CondValues == {5, 10}

\* the capacity of the sample roads: the default of edge_data.get('capacity', 1000)
SampleCapacity == 1000

\* graph.neighbors(n)
Neighbors(n) == {m \in Nodes : {n, m} \in DOMAIN graph}

\* graph[a][b]
EdgeData(a, b) == graph[{a, b}]

\* the sample distances of the roads: a short and a long one
Weights == {1, MaxWeight}

\* the graphs with at most MaxEdges edges whose attributes come from kinds
GraphsOver(kinds) ==
    UNION {[E -> kinds] : E \in {S \in SUBSET NodePairs : Cardinality(S) <= MaxEdges}}

RoadKinds(weights, conds) ==
    [weight : weights, condition : conds, capacity : {SampleCapacity}]

\* the coordinates of the model, in steps of 1/CoordSteps of a degree
CoordSteps == 5 * 10

Coords == {<<0, 0>>, <<0, MaxCoord>>}

\* node_positions.get(n); the empty tuple stands for the missing entry
NoPosition == <<>>

PositionOf(n) == IF n \in DOMAIN node_positions THEN node_positions[n] ELSE NoPosition

(***************************************************************************)
(* calculate_time_weight, in units of 1/TimeUnit minute                    *)
(***************************************************************************)
TimeUnit == 16 * 7

\* traffic_multipliers.get(time_of_day, 0.7), in tenths
TrafficMult(time_of_day) ==
    CASE time_of_day = "Morning Rush" -> 5
      [] time_of_day = "Evening Rush" -> 4
      [] time_of_day = "Midday" -> 8
      [] time_of_day = "Night" -> 10
      [] OTHER -> 7

\* max(0.3, 1.0 - current_flow / capacity) with current_flow = capacity * 0.5,
\* in tenths
CapacityMult(edge_data) ==
    Max(3, 10 - (10 * (edge_data.capacity * 5)) \div (edge_data.capacity * 10))

\* (distance / actual_speed) * 60, with
\* actual_speed = base_speed * traffic_mult * condition / 10 * capacity_mult
CalculateTimeWeight(edge_data, time_of_day) ==
    (edge_data.weight * 60 * 1000 * TimeUnit)
        \div (BaseSpeed * TrafficMult(time_of_day) * edge_data.condition * CapacityMult(edge_data))

(***************************************************************************)
(* The weight of one edge under each search                                *)
(***************************************************************************)
\* a variant that takes the condition term off the distance instead of adding it
DijkstraWeightDiscount(edge_data) ==
    IF opts.consider_road_condition
    THEN edge_data.weight * (10 - Min(10, (11 - edge_data.condition) * opts.condition_weight))
    ELSE edge_data.weight * 10

\* dijkstra_shortest_path: weight, times 1 + (11 - condition) * condition_weight
\* when consider_road_condition is set; in tenths of a km
DijkstraWeight(edge_data) ==
    IF opts.consider_road_condition
    THEN edge_data.weight * (10 + (11 - edge_data.condition) * opts.condition_weight)
    ELSE edge_data.weight * 10

\* time_dijkstra: the time weight, times 1 + congestion (0.5 by default) when
\* avoid_congestion is set
TimeDijkstraWeight(edge_data) ==
    IF opts.avoid_congestion
    THEN (CalculateTimeWeight(edge_data, opts.time_of_day) * 15) \div 10
    ELSE CalculateTimeWeight(edge_data, opts.time_of_day)

\* the cost a search adds for the edge a - b
EdgeCost(a, b) ==
    CASE algo = "dijkstra" -> DijkstraWeight(EdgeData(a, b))
      [] algo = "time_dijkstra" -> TimeDijkstraWeight(EdgeData(a, b))
      [] OTHER -> EdgeData(a, b).weight

(***************************************************************************)
(* heapq on a list of (priority, node) tuples                              *)
(***************************************************************************)
TupleLeq(x, y) == x[1] < y[1] \/ (x[1] = y[1] /\ x[2] <= y[2])

\* a variant that pops the largest tuple
HeapTopLargest(h) == CHOOSE x \in h : \A y \in h : TupleLeq(y, x)

\* the tuple heapq.heappop returns
HeapTop(h) == CHOOSE x \in h : \A y \in h : TupleLeq(x, y)

(***************************************************************************)
(* dijkstra_shortest_path and time_dijkstra (the same loop, with            *)
(* DijkstraWeight and TimeDijkstraWeight as the weight of an edge)         *)
(***************************************************************************)
IsDijkstra == algo \in {"dijkstra", "time_dijkstra"}

Pending == [kind |-> "pending", has_path |-> FALSE, path |-> <<>>, cost |-> 0]

\* distances = {node: inf for node in graph.nodes()}; distances[start] = 0
InitialDistances == [n \in Nodes \cup {start} |-> IF n = start THEN 0 ELSE Inf]

\* a variant that takes the weight of the edge alone as the new distance
RelaxedDistanceEdgeOnly(current, neighbor) == EdgeCost(current, neighbor)

\* distance = distances[current] + weight
RelaxedDistance(current, neighbor) == distances[current] + EdgeCost(current, neighbor)

\* the neighbours for which "distance < distances[neighbor]" holds
Improved(current) ==
    {n \in Neighbors(current) : RelaxedDistance(current, n) < distances[n]}

\* the path list after the reconstruction loop and path.reverse()
RECURSIVE PathTo(_)
PathTo(n) == IF previous[n] = None THEN <<n>> ELSE Append(PathTo(previous[n]), n)

\* heappop gives the end node: break
DijkstraPopEnd ==
    /\ IsDijkstra /\ result.kind = "pending" /\ pq # {}
    /\ HeapTop(pq)[2] = goal
    /\ pq' = pq \ {HeapTop(pq)}
    /\ result' = [result EXCEPT !.kind = "reconstruct"]
    /\ UNCHANGED <<graph, algo, opts, node_positions, start, goal, distances, previous>>
    /\ SearchFrame

\* a variant that leaves the outdated tuple on the heap
DijkstraPopStaleKept ==
    /\ IsDijkstra /\ result.kind = "pending" /\ pq # {}
    /\ HeapTop(pq)[2] # goal
    /\ HeapTop(pq)[1] > distances[HeapTop(pq)[2]]
    /\ UNCHANGED <<graph, algo, opts, node_positions, start, goal, distances, previous,
                   result, pq>>
    /\ SearchFrame

\* heappop gives an outdated tuple: continue
DijkstraPopStale ==
    /\ IsDijkstra /\ result.kind = "pending" /\ pq # {}
    /\ HeapTop(pq)[2] # goal
    /\ HeapTop(pq)[1] > distances[HeapTop(pq)[2]]
    /\ pq' = pq \ {HeapTop(pq)}
    /\ UNCHANGED <<graph, algo, opts, node_positions, start, goal, distances, previous, result>>
    /\ SearchFrame

\* heappop gives a node of the graph: relax its edges
DijkstraPopExpand ==
    /\ IsDijkstra /\ result.kind = "pending" /\ pq # {}
    /\ LET current == HeapTop(pq)[2]
       IN  /\ current # goal
           /\ ~(HeapTop(pq)[1] > distances[current])
           /\ current \in Nodes
           /\ distances' = [n \in DOMAIN distances |->
                               IF n \in Improved(current)
                               THEN RelaxedDistance(current, n) ELSE distances[n]]
           /\ previous' = [n \in DOMAIN previous |->
                               IF n \in Improved(current) THEN current ELSE previous[n]]
           /\ pq' = (pq \ {HeapTop(pq)})
                       \cup {<<RelaxedDistance(current, n), n>> : n \in Improved(current)}
    /\ UNCHANGED <<graph, algo, opts, node_positions, start, goal, result>>
    /\ SearchFrame

\* heappop gives a start node the graph does not hold: graph.neighbors raises
DijkstraPopAbsent ==
    /\ IsDijkstra /\ result.kind = "pending" /\ pq # {}
    /\ HeapTop(pq)[2] # goal
    /\ ~(HeapTop(pq)[1] > distances[HeapTop(pq)[2]])
    /\ HeapTop(pq)[2] \notin Nodes
    /\ pq' = pq \ {HeapTop(pq)}
    /\ result' = [result EXCEPT !.kind = "raised"]
    /\ UNCHANGED <<graph, algo, opts, node_positions, start, goal, distances, previous>>
    /\ SearchFrame

\* "while pq" ends with the heap empty
DijkstraExhausted ==
    /\ IsDijkstra /\ result.kind = "pending" /\ pq = {}
    /\ result' = [result EXCEPT !.kind = "reconstruct"]
    /\ UNCHANGED <<graph, algo, opts, node_positions, start, goal, distances, previous, pq>>
    /\ SearchFrame

\* the reconstruction loop reads previous[end] for an end the graph does not hold
DijkstraKeyError ==
    /\ IsDijkstra /\ result.kind = "reconstruct"
    /\ goal \notin DOMAIN previous
    /\ result' = [result EXCEPT !.kind = "raised"]
    /\ UNCHANGED <<graph, algo, opts, node_positions, start, goal, distances, previous, pq>>
    /\ SearchFrame

\* return path, distances[end] if end in distances else float('infinity')
DijkstraReturn ==
    /\ IsDijkstra /\ result.kind = "reconstruct"
    /\ goal \in DOMAIN previous
    /\ result' = [kind |-> "returned", has_path |-> TRUE,
                  path |-> PathTo(goal),
                  cost |-> IF goal \in DOMAIN distances THEN distances[goal] ELSE Inf]
    /\ UNCHANGED <<graph, algo, opts, node_positions, start, goal, distances, previous, pq>>
    /\ SearchFrame

(***************************************************************************)
(* a_star; g_score is kept in distances, came_from in previous, open_set   *)
(* in pq                                                                   *)
(***************************************************************************)
\* the exact square root of a perfect square
Isqrt(n) == CHOOSE r \in 0..n : r * r = n

\* calculate_distance, in coordinate steps
CalculateDistance(coord1, coord2) ==
    Isqrt((coord1[1] - coord2[1]) * (coord1[1] - coord2[1])
          + (coord1[2] - coord2[2]) * (coord1[2] - coord2[2]))

\* heuristic(node_pos, goal_pos): 0 without coordinates, else the distance
\* times 50 (a coordinate step is 1/CoordSteps of a degree)
Heuristic(node_pos, goal_pos) ==
    IF node_pos = NoPosition \/ goal_pos = NoPosition THEN 0
    ELSE (CalculateDistance(node_pos, goal_pos) * HeuristicScale) \div CoordSteps

\* g_score.get(n, float('inf'))
GScore(n) == IF n \in DOMAIN distances THEN distances[n] ELSE Inf

\* tentative_g = g_score[current] + cost
TentativeG(current, neighbor) == distances[current] + EdgeCost(current, neighbor)

AStarImproved(current) ==
    {n \in Neighbors(current) : TentativeG(current, n) < GScore(n)}

\* the path list built by walking came_from, then start, reversed
RECURSIVE AStarPath(_)
AStarPath(n) ==
    IF n \in DOMAIN previous THEN Append(AStarPath(previous[n]), n) ELSE <<start>>

\* heappop gives the goal: return path, g_score[goal]
AStarPopGoal ==
    /\ algo = "a_star" /\ result.kind = "pending" /\ pq # {}
    /\ HeapTop(pq)[2] = goal
    /\ pq' = pq \ {HeapTop(pq)}
    /\ result' = [kind |-> "returned", has_path |-> TRUE,
                  path |-> AStarPath(goal), cost |-> distances[goal]]
    /\ UNCHANGED <<graph, algo, opts, node_positions, start, goal, distances, previous>>
    /\ SearchFrame

\* heappop gives another node of the graph: relax its edges
AStarPopExpand ==
    /\ algo = "a_star" /\ result.kind = "pending" /\ pq # {}
    /\ LET current == HeapTop(pq)[2]
       IN  /\ current # goal
           /\ current \in Nodes
           /\ distances' = [n \in (DOMAIN distances) \cup AStarImproved(current) |->
                               IF n \in AStarImproved(current)
                               THEN TentativeG(current, n) ELSE distances[n]]
           /\ previous' = [n \in (DOMAIN previous) \cup AStarImproved(current) |->
                               IF n \in AStarImproved(current) THEN current ELSE previous[n]]
           /\ pq' = (pq \ {HeapTop(pq)})
                       \cup {<<TentativeG(current, n)
                                 + Heuristic(PositionOf(n), PositionOf(goal)), n>> :
                                    n \in AStarImproved(current)}
    /\ UNCHANGED <<graph, algo, opts, node_positions, start, goal, result>>
    /\ SearchFrame

\* heappop gives a start node the graph does not hold: graph.neighbors raises
AStarPopAbsent ==
    /\ algo = "a_star" /\ result.kind = "pending" /\ pq # {}
    /\ HeapTop(pq)[2] # goal
    /\ HeapTop(pq)[2] \notin Nodes
    /\ pq' = pq \ {HeapTop(pq)}
    /\ result' = [result EXCEPT !.kind = "raised"]
    /\ UNCHANGED <<graph, algo, opts, node_positions, start, goal, distances, previous>>
    /\ SearchFrame

\* "while open_set" ends with the heap empty: return None, float('inf')
AStarExhausted ==
    /\ algo = "a_star" /\ result.kind = "pending" /\ pq = {}
    /\ result' = [kind |-> "returned", has_path |-> FALSE, path |-> <<>>, cost |-> Inf]
    /\ UNCHANGED <<graph, algo, opts, node_positions, start, goal, distances, previous, pq>>
    /\ SearchFrame

(***************************************************************************)
(* The calls of the searches the model makes                               *)
(***************************************************************************)
DijkstraOptions(consider) ==
    [consider_road_condition |-> consider, condition_weight |-> DefaultConditionWeight,
     time_of_day |-> "", avoid_congestion |-> FALSE]

TimeOptions(time_of_day, avoid) ==
    [consider_road_condition |-> FALSE, condition_weight |-> DefaultConditionWeight,
     time_of_day |-> time_of_day, avoid_congestion |-> avoid]

\* the (start, end) pairs of the calls: from node 1 to every node and to an
\* absent one, and from an absent node
Queries ==
    {<<1, g>> : g \in Nodes \cup {AbsentNode}} \cup {<<AbsentNode, 1>>, <<AbsentNode, AbsentNode>>}

\* the state of dijkstra_shortest_path / time_dijkstra on entering "while pq"
DijkstraEntry ==
    /\ node_positions = <<>>
    /\ \E q \in Queries : start = q[1] /\ goal = q[2]
    /\ distances = InitialDistances
    /\ previous = [n \in Nodes |-> None]
    /\ pq = {<<0, start>>}
    /\ result = Pending

\* the state of a_star on entering "while open_set"
AStarEntry ==
    /\ \E q \in Queries : start = q[1] /\ goal = q[2]
    /\ distances = [n \in {start} |-> 0]
    /\ previous = <<>>
    /\ pq = {<<0, start>>}
    /\ result = Pending

\* the graph of the tests (tests/__init__.py, SAMPLE_ROADS)
\* the values of condition_weight: none, the default, and the 0.5 of the tests
ConditionWeights == {0, DefaultConditionWeight, 5}

SampleGraph ==
    [e \in {{1, 2}, {2, 3}, {1, 3}} |->
        CASE e = {1, 2} -> [weight |-> 5, condition |-> 8, capacity |-> 1000]
          [] e = {2, 3} -> [weight |-> 3, condition |-> 7, capacity |-> 800]
          [] OTHER -> [weight |-> 4, condition |-> 9, capacity |-> 1200]]

InitSearch ==
    /\ AllocIdle /\ HospitalIdle /\ TransitIdle /\ MapIdle /\ MstIdle /\ RouteIdle
    /\ \/ /\ algo = "dijkstra"
          /\ opts \in {DijkstraOptions(FALSE)} \cup
                {[DijkstraOptions(TRUE) EXCEPT !.condition_weight = w] : w \in ConditionWeights}
          /\ graph = SampleGraph
          /\ DijkstraEntry
       \/ /\ algo = "dijkstra"
          /\ opts = DijkstraOptions(FALSE)
          /\ graph \in GraphsOver(RoadKinds({0} \cup Weights, {10}))
          /\ DijkstraEntry
       \/ /\ algo = "dijkstra"
          /\ opts = DijkstraOptions(TRUE)
          /\ graph \in GraphsOver(RoadKinds(Weights, CondValues))
          /\ DijkstraEntry
       \/ /\ algo = "time_dijkstra"
          /\ opts \in {TimeOptions("Morning Rush", FALSE), TimeOptions("Holiday", TRUE)}
          /\ graph \in GraphsOver(RoadKinds({MaxWeight}, CondValues))
          /\ DijkstraEntry
       \/ /\ algo = "a_star"
          /\ opts = DijkstraOptions(FALSE)
          /\ graph \in GraphsOver(RoadKinds(Weights, {10}))
          /\ node_positions \in UNION {[S -> Coords] : S \in {{1}, Nodes}}
          /\ node_positions[1] = <<0, 0>>
          /\ AStarEntry

NextSearch ==
    \/ DijkstraPopEnd
    \/ DijkstraPopStale
    \/ DijkstraPopExpand
    \/ DijkstraPopAbsent
    \/ DijkstraExhausted
    \/ DijkstraKeyError
    \/ DijkstraReturn
    \/ AStarPopGoal
    \/ AStarPopExpand
    \/ AStarPopAbsent
    \/ AStarExhausted

SpecSearch == InitSearch /\ [][NextSearch]_vars

\* the loops run in one thread, each iteration following the one before: a
\* step that can be taken is taken
FairSpecSearch == InitSearch /\ [][NextSearch]_vars /\ WF_vars(NextSearch)

(***************************************************************************)
(* calculate_time_weight called on one edge: graph holds the edge, opts    *)
(* the time of day, result what the call gives                             *)
(***************************************************************************)
InitTimeWeight ==
    /\ AllocIdle /\ HospitalIdle /\ TransitIdle /\ MapIdle /\ MstIdle /\ RouteIdle
    /\ algo = "calculate_time_weight"
    /\ graph \in [{{1, 2}} -> [weight : 0..MaxWeight, condition : 1..10,
                               capacity : {0, SampleCapacity \div 2, SampleCapacity}]]
    /\ opts \in {TimeOptions(t, FALSE) :
                    t \in {"Morning Rush", "Evening Rush", "Midday", "Night", "Holiday", ""}}
    /\ node_positions = <<>>
    /\ start = 1 /\ goal = 2
    /\ distances = <<>> /\ previous = <<>> /\ pq = {}
    /\ result = Pending

\* capacity is 0: "current_flow / capacity" raises ZeroDivisionError
TimeWeightRaise ==
    /\ algo = "calculate_time_weight" /\ result.kind = "pending"
    /\ EdgeData(1, 2).capacity = 0
    /\ result' = [result EXCEPT !.kind = "raised"]
    /\ UNCHANGED <<graph, algo, opts, node_positions, start, goal, distances, previous, pq>>
    /\ SearchFrame

\* return time
TimeWeightReturn ==
    /\ algo = "calculate_time_weight" /\ result.kind = "pending"
    /\ EdgeData(1, 2).capacity # 0
    /\ result' = [kind |-> "returned", has_path |-> FALSE, path |-> <<>>,
                  cost |-> CalculateTimeWeight(EdgeData(1, 2), opts.time_of_day)]
    /\ UNCHANGED <<graph, algo, opts, node_positions, start, goal, distances, previous, pq>>
    /\ SearchFrame

NextTimeWeight ==
    \/ TimeWeightRaise
    \/ TimeWeightReturn

SpecTimeWeight == InitTimeWeight /\ [][NextTimeWeight]_vars

\* C15: calculate_time_weight never fails for an edge with distance > 0,
\* capacity >= 0 and condition in 1..10, whatever the time of day, and
\* returns 0 for an edge of distance 0.
C15_TimeWeightIsTotal ==
    (algo = "calculate_time_weight" /\ result.kind # "pending") =>
        /\ result.kind = "returned"
        /\ (EdgeData(1, 2).weight = 0) => (result.cost = 0)

(***************************************************************************)
(* find_nearest_hospital: one a_star call per row of the hospitals table   *)
(***************************************************************************)
\* a variant that keeps every hospital a_star finds a path to
FoundAny(cost, min_cost) == cost < Inf

\* cost < min_cost
Nearer(cost, min_cost) == cost < min_cost

\* "if path and cost < min_cost": a path that is neither None nor empty
KeepsResult ==
    /\ result.has_path /\ Len(result.path) > 0
    /\ Nearer(result.cost, best.cost)

\* the hospital tables: up to MaxHospitals rows with distinct ids, some of
\* them absent from the graph; the Name of a row is its number
HospitalTables ==
    {[i \in 1..Len(ids) |-> [ID |-> ids[i], Name |-> i]] :
        ids \in {q \in UNION {[1..k -> Nodes \cup {AbsentNode}] : k \in 0..MaxHospitals} :
                    \A i, j \in 1..Len(q) : i # j => q[i] # q[j]}}

\* the coordinate tables of the calls: none but the start, or all nodes
\* with node 3 away from the others
HospitalPositions ==
    {[n \in {1} |-> <<0, 0>>],
     [n \in Nodes |-> IF n = 3 THEN <<0, MaxCoord>> ELSE <<0, 0>>]}

InitHospital ==
    /\ AllocIdle /\ TransitIdle /\ MapIdle /\ MstIdle /\ RouteIdle
    /\ algo = "a_star"
    /\ opts = DijkstraOptions(FALSE)
    /\ \/ /\ start = 1
          /\ graph \in GraphsOver(RoadKinds(Weights, {10}))
       \/ /\ start = AbsentNode
          /\ graph = SampleGraph
    /\ node_positions \in HospitalPositions
    /\ goal = None
    /\ distances = <<>> /\ previous = <<>> /\ pq = {}
    /\ result = [kind |-> "idle", has_path |-> FALSE, path |-> <<>>, cost |-> 0]
    /\ hospitals \in HospitalTables
    /\ hi = 1
    /\ best = NoHospital
    /\ calls = <<>>
    /\ hpc = "loop"

\* "if hospital_id not in graph or start_id not in graph: continue"
HospitalSkip ==
    /\ hpc = "loop" /\ hi <= Len(hospitals)
    /\ (hospitals[hi].ID \notin Nodes \/ start \notin Nodes)
    /\ hi' = hi + 1
    /\ calls' = Append(calls, [called |-> FALSE, has_path |-> FALSE, path |-> <<>>, cost |-> Inf])
    /\ UNCHANGED <<hospitals, best, hpc, searchVars>>
    /\ HospitalFrame

\* path, cost = a_star(graph, start_id, hospital_id, node_positions): the call
HospitalCall ==
    /\ hpc = "loop" /\ hi <= Len(hospitals)
    /\ hospitals[hi].ID \in Nodes /\ start \in Nodes
    /\ goal' = hospitals[hi].ID
    /\ distances' = [n \in {start} |-> 0]
    /\ previous' = <<>>
    /\ pq' = {<<0, start>>}
    /\ result' = Pending
    /\ hpc' = "a_star"
    /\ UNCHANGED <<graph, algo, opts, node_positions, start, hospitals, hi, best, calls>>
    /\ HospitalFrame

\* a_star has returned and the result replaces the best one
HospitalKeep ==
    /\ hpc = "a_star" /\ result.kind = "returned"
    /\ KeepsResult
    /\ best' = [has_path |-> TRUE, path |-> result.path, cost |-> result.cost,
                name |-> hospitals[hi].Name]
    /\ calls' = Append(calls, [called |-> TRUE, has_path |-> result.has_path,
                               path |-> result.path, cost |-> result.cost])
    /\ hi' = hi + 1
    /\ hpc' = "loop"
    /\ UNCHANGED <<hospitals, searchVars>>
    /\ HospitalFrame

\* a_star has returned and the best result stays
HospitalDiscard ==
    /\ hpc = "a_star" /\ result.kind = "returned"
    /\ ~KeepsResult
    /\ calls' = Append(calls, [called |-> TRUE, has_path |-> result.has_path,
                               path |-> result.path, cost |-> result.cost])
    /\ hi' = hi + 1
    /\ hpc' = "loop"
    /\ UNCHANGED <<hospitals, best, searchVars>>
    /\ HospitalFrame

\* return best_path, min_cost, best_hospital
HospitalReturn ==
    /\ hpc = "loop" /\ hi > Len(hospitals)
    /\ hpc' = "done"
    /\ UNCHANGED <<hospitals, hi, best, calls, searchVars>>
    /\ HospitalFrame

NextHospital ==
    \/ HospitalSkip
    \/ HospitalCall
    \/ AStarPopGoal
    \/ AStarPopExpand
    \/ AStarExhausted
    \/ HospitalKeep
    \/ HospitalDiscard
    \/ HospitalReturn

SpecHospital == InitHospital /\ [][NextHospital]_vars

(***************************************************************************)
(* Properties of the searches                                              *)
(***************************************************************************)
\* the nodes reachable from the nodes of S
RECURSIVE ReachableFrom(_)
ReachableFrom(S) ==
    LET T == S \cup UNION {Neighbors(n) : n \in S}
    IN  IF T = S THEN S ELSE ReachableFrom(T)

Connected(a, b) == a \in Nodes /\ b \in Nodes /\ b \in ReachableFrom({a})

\* the paths of the graph from a to b that visit no node twice
SimplePaths(a, b) ==
    {p \in UNION {[1..k -> Nodes] : k \in 1..Cardinality(Nodes)} :
        /\ p[1] = a /\ p[Len(p)] = b
        /\ \A i, j \in 1..Len(p) : i # j => p[i] # p[j]
        /\ \A i \in 1..(Len(p) - 1) : {p[i], p[i + 1]} \in DOMAIN graph}

\* the sum of W over the consecutive pairs of p
PathSum(p, W(_, _)) ==
    LET sum[i \in 1..Len(p)] ==
            IF i = Len(p) THEN 0 ELSE W(p[i], p[i + 1]) + sum[i + 1]
    IN  IF Len(p) = 0 THEN 0 ELSE sum[1]

\* the weight the claims give an edge of dijkstra_shortest_path: the raw
\* distance, or the distance times 1 + (11 - condition) * condition_weight,
\* in tenths of a km
BlendedWeight(a, b) ==
    IF opts.consider_road_condition
    THEN EdgeData(a, b).weight * (10 + (11 - EdgeData(a, b).condition) * opts.condition_weight)
    ELSE EdgeData(a, b).weight * 10

RawWeight(a, b) == EdgeData(a, b).weight

Returned == result.kind = "returned"

Finished == result.kind \in {"returned", "raised"}

\* C4: for two nodes of the graph in different components, the Dijkstra
\* functions return an empty path together with an infinite total.
C4_DisconnectedGivesEmptyPath ==
    (IsDijkstra /\ Returned /\ start \in Nodes /\ goal \in Nodes /\ ~Connected(start, goal)) =>
        (Len(result.path) = 0 /\ result.cost = Inf)

\* C5: when start or end is not a node of the graph, dijkstra_shortest_path
\* returns the no-route value (empty path, infinite total) and does not raise.
C5_AbsentNodeGivesNoRoute ==
    (algo = "dijkstra" /\ Finished /\ (start \notin Nodes \/ goal \notin Nodes)) =>
        (Returned /\ result.path = <<>> /\ result.cost = Inf)

\* C6: every result with a finite cost is a path of the graph from start to
\* goal whose cost is the sum of the weights of its edges, under the weight
\* function of the search that returned it.
C6_ReturnedPathIsValid ==
    (Returned /\ result.has_path /\ result.cost < Inf) =>
        /\ Len(result.path) >= 1
        /\ result.path[1] = start
        /\ result.path[Len(result.path)] = goal
        /\ \A i \in 1..(Len(result.path) - 1) :
              {result.path[i], result.path[i + 1]} \in DOMAIN graph
        /\ result.cost = PathSum(result.path, EdgeCost)

\* a_star has returned a path of three edges
C6_Witness ==
    /\ algo = "a_star" /\ Returned /\ result.has_path
    /\ Len(result.path) = 4
    /\ result.cost < Inf

\* C7: for connected start and end, the total of dijkstra_shortest_path is
\* the minimum over all paths of the sum of the (raw or condition-blended)
\* weights; on the graph of the tests the query 1 -> 3 gives [1, 3] and 4.
C7_DijkstraTotalIsMinimal ==
    (algo = "dijkstra" /\ Returned /\ Connected(start, goal)) =>
        /\ \A p \in SimplePaths(start, goal) : result.cost <= PathSum(p, BlendedWeight)
        /\ \E p \in SimplePaths(start, goal) : result.cost = PathSum(p, BlendedWeight)
        /\ (graph = SampleGraph /\ goal = 3 /\ ~opts.consider_road_condition) =>
              (result.path = <<1, 3>> /\ result.cost = 4 * 10)

\* dijkstra_shortest_path has returned a two-edge path that beats a direct edge
C7_Witness ==
    /\ algo = "dijkstra" /\ Returned
    /\ Len(result.path) = 3
    /\ {start, goal} \in DOMAIN graph
    /\ result.cost < BlendedWeight(start, goal)

\* the total dijkstra_shortest_path returns for start and goal with
\* consider_road_condition=False: the least sum of raw distances, in tenths
BasicTotal ==
    IF Connected(start, goal)
    THEN CHOOSE t \in {10 * PathSum(p, RawWeight) : p \in SimplePaths(start, goal)} :
            \A p \in SimplePaths(start, goal) : t <= 10 * PathSum(p, RawWeight)
    ELSE Inf

\* C24: with conditions in 1..10 and condition_weight >= 0, the total returned
\* with consider_road_condition=True is at least the total returned for the
\* same graph, start and end with consider_road_condition=False.
C24_ConditionTotalNotSmaller ==
    (algo = "dijkstra" /\ Returned) =>
        /\ ~opts.consider_road_condition => result.cost = BasicTotal
        /\ opts.consider_road_condition => result.cost >= BasicTotal

\* a condition-aware call has returned a finite total above the basic one,
\* along a path other than the one of least raw distance
C24_Witness ==
    /\ algo = "dijkstra" /\ Returned /\ opts.consider_road_condition
    /\ result.cost < Inf
    /\ result.cost > BasicTotal
    /\ 10 * PathSum(result.path, RawWeight) > BasicTotal

\* C29: on every finite graph with non-negative weights the three searches
\* terminate, a_star under any heuristic, whether or not the goal is reachable:
\* every call ends, by a return or by an exception.
C29_SearchTerminates == <>Finished

\* a_star has ended on a path that is not the cheapest: its heuristic
\* overestimated the remaining cost
C29_Witness ==
    /\ algo = "a_star" /\ Returned /\ result.has_path
    /\ \E p \in SimplePaths(start, goal) : PathSum(p, RawWeight) < result.cost

\* C8: the heuristic never exceeds the true remaining cost, so a_star
\* returns a path whose cost is the minimum total weight over all paths.
C8_AStarCostIsMinimal ==
    (algo = "a_star" /\ Returned /\ Connected(start, goal)) =>
        \A p \in SimplePaths(start, goal) : result.cost <= PathSum(p, RawWeight)

\* the rows whose hospital the start node is connected to
ReachableHospitals == {i \in 1..Len(hospitals) : Connected(start, hospitals[i].ID)}

\* the rows a_star has found a path for
FoundRows == {i \in 1..Len(calls) : calls[i].called /\ calls[i].has_path}

TransitIds == {1, 2, 3}

SampleValidNodes == {1, 2}

\* a Stops cell as read from the table: the tokens between the commas, each
\* the id and whether blanks surround it ("1, 2, 3": all but the first)
RawCell(ids) == [k \in 1..Len(ids) |-> [id |-> ids[k], pad |-> k > 1]]

\* the table whose cells hold the stops of ids in order, a new cell
\* beginning after every position of cuts
RawTable(ids, cuts) ==
    LET starts == {1} \cup {c + 1 : c \in cuts}
        startOf(j) == CHOOSE b \in starts : Cardinality({x \in starts : x < b}) = j - 1
        endOf(b) == IF \E c \in cuts : c >= b
                    THEN CHOOSE c \in cuts : c >= b /\ \A d \in cuts : d >= b => c <= d
                    ELSE Len(ids)
    IN  IF Len(ids) = 0 THEN <<>>
        ELSE [j \in 1..Cardinality(starts) |->
                 RawCell(SubSeq(ids, startOf(j), endOf(startOf(j))))]

\* [str(s).strip() for s in str(route[stops_col]).split(',')]
Stripped(cell) == [k \in 1..Len(cell) |-> cell[k].id]

IsValidNode(stop) == stop \in valid_nodes

\* a variant that keeps every stop
AllStops(cell) == Stripped(cell)

\* [stop for stop in stops if stop in self.valid_nodes]
ValidStops(cell) == SelectSeq(Stripped(cell), IsValidNode)

\* a variant that keeps a route with a single valid stop
HasOneValidStop(cell) == Len(ValidStops(cell)) >= 1

\* len(valid_stops) >= 2
HasTwoValidStops(cell) == Len(ValidStops(cell)) >= 2

\* _validate_routes: the routes with at least 2 valid stops, their Stops
\* column replaced by ','.join(valid_stops)
ValidateRoutes(cells) ==
    LET kept == SelectSeq(cells, HasTwoValidStops)
    IN  [i \in 1..Len(kept) |-> ValidStops(kept[i])]

\* the stops of the validated routes that are valid nodes
CollectStops(routes) ==
    UNION {{r[k] : k \in 1..Len(r)} \cap valid_nodes : r \in {routes[i] : i \in 1..Len(routes)}}

\* load_transit_data: "if valid_nodes:" filters, an empty set does not
LoadStops(cell) == IF valid_nodes # {} THEN SelectSeq(Stripped(cell), IsValidNode) ELSE Stripped(cell)

LoadKeeps(cell) == Len(LoadStops(cell)) >= 2

\* the routes load_transit_data appends to valid_bus_routes / valid_metro_lines
LoadRoutes(cells) ==
    LET kept == SelectSeq(cells, LoadKeeps)
    IN  [i \in 1..Len(kept) |-> LoadStops(kept[i])]

\* bus_stops.update(stops) over the routes kept
LoadedStops(routes) == UNION {{routes[i][k] : k \in 1..Len(routes[i])} : i \in 1..Len(routes)}

InitTransit ==
    /\ AllocIdle /\ SearchIdle /\ HospitalIdle /\ MapIdle /\ MstIdle /\ RouteIdle
    /\ tmode \in {"constructor", "load"}
    /\ \/ /\ valid_nodes = SampleValidNodes
          \* every pair of tables with at most MaxTokens stops in all
          /\ \E n \in 0..MaxTokens : \E ids \in [1..n -> TransitIds] : \E nb \in 0..n :
                /\ \E cuts \in SUBSET (1..(nb - 1)) :
                      raw_bus = RawTable(SubSeq(ids, 1, nb), cuts)
                /\ \E cuts \in SUBSET (1..(n - nb - 1)) :
                      raw_metro = RawTable(SubSeq(ids, nb + 1, n), cuts)
       \/ /\ valid_nodes = {1, 2, 3, 4}
          /\ raw_bus = <<RawCell(<<1, 2, 3>>)>>
          /\ raw_metro = <<RawCell(<<2, 3, 4>>)>>
    /\ bus_routes = <<>> /\ metro_lines = <<>>
    /\ bus_stops = {} /\ metro_stations = {} /\ transfer_points = {}
    /\ network = <<>>
    /\ tpc = IF tmode = "constructor" THEN "validate" ELSE "bus"

\* __init__: self.bus_routes = self._validate_routes(bus_routes, "bus"), the
\* same for the metro lines, self.transfer_points = set()
ConstructorValidate ==
    /\ tmode = "constructor" /\ tpc = "validate"
    /\ bus_routes' = ValidateRoutes(raw_bus)
    /\ metro_lines' = ValidateRoutes(raw_metro)
    /\ transfer_points' = {}
    /\ tpc' = "identify"
    /\ UNCHANGED <<network, valid_nodes, raw_bus, raw_metro, bus_stops, metro_stations, tmode>>
    /\ TransitFrame

\* _identify_transfer_points
IdentifyTransferPoints ==
    /\ tmode = "constructor" /\ tpc = "identify"
    /\ bus_stops' = CollectStops(bus_routes)
    /\ metro_stations' = CollectStops(metro_lines)
    /\ transfer_points' = CollectStops(bus_routes) \cap CollectStops(metro_lines)
    /\ tpc' = "done"
    /\ UNCHANGED <<network, valid_nodes, raw_bus, raw_metro, bus_routes, metro_lines, tmode>>
    /\ TransitFrame

\* load_transit_data: "Process bus routes"
LoadBusRoutes ==
    /\ tmode = "load" /\ tpc = "bus"
    /\ bus_routes' = LoadRoutes(raw_bus)
    /\ bus_stops' = LoadedStops(LoadRoutes(raw_bus))
    /\ tpc' = "metro"
    /\ UNCHANGED <<network, valid_nodes, raw_bus, raw_metro, metro_lines, metro_stations,
                   transfer_points, tmode>>
    /\ TransitFrame

\* load_transit_data: "Process metro lines"
LoadMetroLines ==
    /\ tmode = "load" /\ tpc = "metro"
    /\ metro_lines' = LoadRoutes(raw_metro)
    /\ metro_stations' = LoadedStops(LoadRoutes(raw_metro))
    /\ tpc' = "finish"
    /\ UNCHANGED <<network, valid_nodes, raw_bus, raw_metro, bus_routes, bus_stops,
                   transfer_points, tmode>>
    /\ TransitFrame

\* both validated tables hold a route: the intersection is returned
LoadReturn ==
    /\ tmode = "load" /\ tpc = "finish"
    /\ bus_routes # <<>> /\ metro_lines # <<>>
    /\ transfer_points' = bus_stops \cap metro_stations
    /\ tpc' = "done"
    /\ UNCHANGED <<network, valid_nodes, raw_bus, raw_metro, bus_routes, metro_lines,
                   bus_stops, metro_stations, tmode>>
    /\ TransitFrame

\* a validated table is empty: "No valid transit routes found after validation"
LoadRaise ==
    /\ tmode = "load" /\ tpc = "finish"
    /\ (bus_routes = <<>> \/ metro_lines = <<>>)
    /\ tpc' = "raised"
    /\ UNCHANGED <<network, valid_nodes, raw_bus, raw_metro, bus_routes, metro_lines,
                   bus_stops, metro_stations, transfer_points, tmode>>
    /\ TransitFrame

\* the roads of base_graph, whose edge data holds no 'type'
BaseEdges == {{1, 2}, {1, 3}}

\* build_integrated_network: self.network = nx.Graph(), then add_edge for
\* every road of base_graph, every hop of a bus route and every hop of a metro
\* line whose two stops are valid nodes; a Graph holds one edge per pair, and
\* add_edge on a pair it holds updates the data of that edge
IntegratedNetwork ==
    LET HopsOf(r, type, id) ==
            LET idx == SelectSeq([k \in 1..(Len(r) - 1) |-> k],
                                 LAMBDA k : r[k] \in valid_nodes /\ r[k + 1] \in valid_nodes)
            IN  [j \in 1..Len(idx) |->
                    [ends |-> {r[idx[j]], r[idx[j] + 1]}, data |-> [type |-> type, route |-> id]]]
        AllHops(routes, type) ==
            LET f[i \in 0..Len(routes)] ==
                    IF i = 0 THEN <<>> ELSE f[i - 1] \o HopsOf(routes[i], type, i)
            IN  f[Len(routes)]
        base == LET f[S \in SUBSET BaseEdges] ==
                        IF S = {} THEN <<>>
                        ELSE LET e == CHOOSE e \in S : TRUE
                             IN  f[S \ {e}] \o <<[ends |-> e, data |-> [type |-> "None", route |-> 0]]>>
                IN  f[BaseEdges]
        hops == base \o AllHops(bus_routes, "bus") \o AllHops(metro_lines, "metro")
        add_edge(g, hop) ==
            [e \in DOMAIN g \cup {hop.ends} |-> IF e = hop.ends THEN <<hop.data>> ELSE g[e]]
        G[i \in 0..Len(hops)] == IF i = 0 THEN <<>> ELSE add_edge(G[i - 1], hops[i])
    IN  G[Len(hops)]

BuildIntegratedNetwork ==
    /\ tpc = "done"
    /\ network' = IntegratedNetwork
    /\ tpc' = "network"
    /\ UNCHANGED <<valid_nodes, raw_bus, raw_metro, bus_routes, metro_lines,
                   bus_stops, metro_stations, transfer_points, tmode>>
    /\ TransitFrame

NextTransit ==
    \/ ConstructorValidate
    \/ IdentifyTransferPoints
    \/ LoadBusRoutes
    \/ LoadMetroLines
    \/ LoadReturn
    \/ LoadRaise
    \/ BuildIntegratedNetwork

SpecTransit == InitTransit /\ [][NextTransit]_vars

\* the pairs of valid stops that follow one another in a route of the table
LinkedBy(routes) ==
    {{routes[i][k], routes[i][k + 1]} : <<i, k>> \in
        {x \in (1..Len(routes)) \X (1..MaxTokens) :
            /\ x[2] < Len(routes[x[1]])
            /\ routes[x[1]][x[2]] \in valid_nodes
            /\ routes[x[1]][x[2] + 1] \in valid_nodes}}

\* C25: when a bus route and a metro line both link the same two adjacent
\* stops, the integrated network holds both a bus-typed and a metro-typed edge
\* between them after the build; the later one does not replace the earlier.
C25_BothModesCoexist ==
    (tpc = "network") =>
        \A e \in LinkedBy(bus_routes) \cap LinkedBy(metro_lines) :
            /\ e \in DOMAIN network
            /\ \E x \in DOMAIN network[e] : network[e][x].type = "bus"
            /\ \E x \in DOMAIN network[e] : network[e][x].type = "metro"

\* a route of the table is retained: at least two of its stops are valid
Retained(cell) == Cardinality({k \in 1..Len(cell) : cell[k].id \in valid_nodes}) >= 2

\* the valid stop ids that occur in a retained route of the table
ServedBy(table) ==
    {s \in valid_nodes :
        \E i \in 1..Len(table) :
            Retained(table[i]) /\ \E k \in 1..Len(table[i]) : table[i][k].id = s}

\* C10: once the optimizer is constructed, or load_transit_data has
\* returned, transfer_points is exactly the set of valid stop ids that occur
\* in at least one retained bus route and in at least one retained metro
\* line; bus stops {A,B,C} and metro stops {B,C,D} give {B,C}.
C10_TransferPoints ==
    (tpc = "done") =>
        /\ transfer_points = ServedBy(raw_bus) \cap ServedBy(raw_metro)
        /\ (raw_bus = <<RawCell(<<1, 2, 3>>)>> /\ raw_metro = <<RawCell(<<2, 3, 4>>)>>
              /\ valid_nodes = {1, 2, 3, 4}) => transfer_points = {2, 3}

\* a valid stop of a discarded bus route and a retained metro line is left
\* out of the transfer points, which are not empty
C10_Witness ==
    /\ tpc = "done"
    /\ transfer_points # {}
    /\ \E s \in valid_nodes \ transfer_points :
          /\ s \in ServedBy(raw_metro)
          /\ \E i \in 1..Len(raw_bus) :
                ~Retained(raw_bus[i]) /\ \E k \in 1..Len(raw_bus[i]) : raw_bus[i][k].id = s

\* q holds the valid stops of the cell, each as often as listed, in the
\* order of the cell
IsValidStopsOf(q, cell) ==
    LET P == {k \in 1..Len(cell) : cell[k].id \in valid_nodes}
    IN  /\ Len(q) = Cardinality(P)
        /\ \A k \in P : q[1 + Cardinality({m \in P : m < k})] = cell[k].id

\* the validated table holds the retained routes of the raw one, in the
\* order of the raw one, each with its valid stops
IsValidatedTableOf(validated, table) ==
    LET K == {i \in 1..Len(table) : Retained(table[i])}
    IN  /\ Len(validated) = Cardinality(K)
        /\ \A i \in K :
              IsValidStopsOf(validated[1 + Cardinality({j \in K : j < i})], table[i])

\* C11: _validate_routes keeps a route or line if and only if at least 2 of
\* its listed stop ids are in valid_nodes, and the stops of every kept route
\* are exactly its valid stops in their original order.
C11_ValidateRoutes ==
    (tmode = "constructor" /\ tpc \in {"identify", "done"}) =>
        /\ IsValidatedTableOf(bus_routes, raw_bus)
        /\ IsValidatedTableOf(metro_lines, raw_metro)

\* of two bus routes the first is dropped for having one valid stop and
\* the second is kept without its invalid stop
C11_Witness ==
    /\ tmode = "constructor" /\ tpc = "identify"
    /\ Len(raw_bus) = 2 /\ Len(bus_routes) = 1
    /\ ~Retained(raw_bus[1])
    /\ \E k \in 1..Len(raw_bus[1]) : raw_bus[1][k].id \in valid_nodes
    /\ Len(bus_routes[1]) < Len(raw_bus[2])

(***************************************************************************)
(* build_map: the graph of the road table                                  *)
(***************************************************************************)
\* the ids of the sample tables: 1 and 2 are neighbourhoods, 3 is a
\* facility, 4 is in neither table
MapIds == {1, 2, 3, 4}

\* the rows of the sample road tables; the Distance None stands for a cell
\* float() raises on
RoadRecords ==
    {[FromID |-> a, ToID |-> b, Name |-> k[1], Distance |-> k[2],
      Capacity |-> SampleCapacity, Condition |-> 8] :
        a \in MapIds, b \in MapIds,
        k \in {<<"Main Street", 5>>, <<"Side Street", 3>>, <<"Side Street", None>>}}

\* a variant that holds the facilities whether shown or not
KnownNodesAll(show) == neighborhoods \cup facilities

\* the keys of node_positions
KnownNodes(show) == neighborhoods \cup (IF show THEN facilities ELSE {})

\* "Filter roads based on scenario if provided": the rows the road loop
\* reads.  Of the downtown ids "3", "18" and "31" the model has 3.
FilteredRoads ==
    IF scenario = "Main Street Closed"
    THEN SelectSeq(roads, LAMBDA row : row.Name # "Main Street")
    ELSE IF scenario = "Downtown Congestion"
    THEN [i \in DOMAIN roads |->
             IF roads[i].FromID = 3 \/ roads[i].ToID = 3
             THEN [roads[i] EXCEPT !.Condition = @ \div 2] ELSE roads[i]]
    ELSE IF scenario = "Rush Hour"
    THEN [i \in DOMAIN roads |-> [roads[i] EXCEPT !.Capacity = (@ * 7) \div 10]]
    ELSE roads

\* a variant that takes a road with one known endpoint
EitherKnown(row, nodes) == row.FromID \in nodes \/ row.ToID \in nodes

\* from_id in node_positions and to_id in node_positions
BothKnown(row, nodes) == row.FromID \in nodes /\ row.ToID \in nodes

\* the loop over filtered_roads: graph.add_edge for the rows with both ends
\* known whose numeric cells float() accepts, the other rows skipped
AddRoads(rows, nodes) ==
    LET g[i \in 0..Len(rows)] ==
            IF i = 0 THEN <<>>
            ELSE IF BothKnown(rows[i], nodes) /\ rows[i].Distance # None
                 THEN [e \in (DOMAIN g[i - 1]) \cup {{rows[i].FromID, rows[i].ToID}} |->
                          IF e = {rows[i].FromID, rows[i].ToID}
                          THEN [weight |-> rows[i].Distance,
                                capacity |-> rows[i].Capacity,
                                condition |-> rows[i].Condition]
                          ELSE g[i - 1][e]]
                 ELSE g[i - 1]
    IN  g[Len(rows)]

InitMap ==
    /\ AllocIdle /\ SearchIdle /\ HospitalIdle /\ TransitIdle /\ MstIdle /\ RouteIdle
    /\ neighborhoods = {1, 2}
    /\ facilities = {3}
    /\ roads \in UNION {[1..k -> {r \in RoadRecords : r.FromID <= r.ToID}] : k \in 0..MaxRoads}
    /\ scenario \in {"", "2", "Main Street Closed", "Downtown Congestion", "Rush Hour"}
    /\ show_facilities \in BOOLEAN
    /\ built_nodes = {} /\ built_graph = <<>> /\ prev_graph = <<>>
    /\ chosen = {} /\ removed = None
    /\ mpc = "call"

\* one call of build_map; under "Downtown Congestion" filtered_roads is the
\* caller's table itself, and the halved conditions are written into it
BuildMap ==
    /\ mpc \in {"call", "recall", "again"}
    /\ built_nodes' = KnownNodes(show_facilities)
    /\ built_graph' = AddRoads(FilteredRoads, KnownNodes(show_facilities))
    /\ prev_graph' = built_graph
    /\ roads' = IF scenario = "Downtown Congestion" THEN FilteredRoads ELSE roads
    /\ mpc' = IF mpc = "call" THEN "built"
              ELSE IF mpc = "recall" THEN "rebuilt" ELSE "repeated"
    /\ UNCHANGED <<neighborhoods, facilities, scenario, show_facilities, chosen, removed>>
    /\ MapFrame

\* the caller calls build_map once more with the same arguments
CallAgain ==
    /\ mpc = "built"
    /\ mpc' = "again"
    /\ UNCHANGED <<neighborhoods, facilities, roads, scenario, show_facilities,
                   built_nodes, built_graph, prev_graph, chosen, removed>>
    /\ MapFrame

\* the caller takes one endpoint of an edge out of the valid nodes: drops
\* the row of the neighbourhood, or hides the facilities
RemoveEndpoint ==
    /\ mpc = "built"
    /\ \E e \in DOMAIN built_graph : \E n \in e :
          /\ neighborhoods \ {n} # {}
          /\ chosen' = e
          /\ removed' = n
          /\ neighborhoods' = neighborhoods \ {n}
          /\ show_facilities' = (show_facilities /\ n \notin facilities)
    /\ mpc' = "recall"
    /\ UNCHANGED <<facilities, roads, scenario, built_nodes, built_graph, prev_graph>>
    /\ MapFrame

NextMap ==
    \/ BuildMap
    \/ RemoveEndpoint
    \/ CallAgain

SpecMap == InitMap /\ [][NextMap]_vars

\* the rows of the road table that are well formed
WellFormed(row) == row.Distance # None

C13_ScenarioClosesLocation ==
    (mpc = "built" /\ scenario = "2") => \A e \in DOMAIN built_graph : 2 \notin e

\* C14 as stated: the rebuilt graph lacks exactly the chosen edge.
C14_DropsExactlyThatEdge ==
    (mpc = "rebuilt") => DOMAIN built_graph = (DOMAIN prev_graph) \ {chosen}

\* C14, amended: rebuilt after one endpoint of a chosen edge has left the
\* valid nodes, the graph lacks exactly the edges of the first graph at that
\* endpoint, the chosen one among them; every edge elsewhere is still there.
C14_DropsEdgesAtEndpoint ==
    (mpc = "rebuilt") =>
        /\ chosen \notin DOMAIN built_graph
        /\ DOMAIN built_graph = {e \in DOMAIN prev_graph : removed \notin e}

\* the removed endpoint had a second edge, which the rebuilt graph lacks too
C14_Witness ==
    /\ mpc = "rebuilt"
    /\ \E e \in DOMAIN prev_graph : e # chosen /\ removed \in e /\ e \notin DOMAIN built_graph

\* C23: build_map behaves as a pure function of its inputs: a call, with
\* any scenario, leaves the road table of the caller unchanged, and a call
\* with the arguments of the first call returns a graph with the same edges
\* and the same distance, capacity and condition on each.
C23_BuildMapIsPure ==
    [][/\ roads' = roads
       /\ (mpc = "again") => (built_graph' = built_graph)]_vars

(***************************************************************************)
(* The MST view (algorithms/mst.py): the graph of the roads between        *)
(* neighbourhoods, and networkx's minimum_spanning_tree(algorithm="prim")  *)
(* on it, a frontier of (weight, u, v) entries per start node              *)
(***************************************************************************)
InitMst ==
    /\ AllocIdle /\ SearchIdle /\ HospitalIdle /\ TransitIdle /\ RouteIdle
    /\ neighborhoods = {1, 2, 3}
    /\ facilities = {4}
    /\ roads \in UNION {[1..k -> {[FromID |-> e[1], ToID |-> e[2], Name |-> "Side Street",
                                   Distance |-> d] :
                                      e \in {x \in MapIds \X MapIds : x[1] < x[2]},
                                      d \in {3, 4, 5}}] :
                           k \in 0..MaxEdges}
    /\ scenario = "" /\ show_facilities = TRUE
    /\ built_nodes = {} /\ built_graph = <<>> /\ prev_graph = <<>>
    /\ chosen = {} /\ removed = None /\ mpc = "idle"
    /\ mst_graph = <<>> /\ prim_nodes = {} /\ visited = {} /\ frontier = {}
    /\ prim_mst = {} /\ total_dist = 0
    /\ mstpc = "build"

\* mst_graph.add_edge for the rows with both ends in neighborhood_ids_str;
\* "No valid roads between neighborhoods!" when that leaves no edge
MstBuildGraph ==
    /\ mstpc = "build"
    /\ LET g[i \in 0..Len(roads)] ==
               IF i = 0 THEN <<>>
               ELSE IF roads[i].FromID \in neighborhoods /\ roads[i].ToID \in neighborhoods
                    THEN [e \in (DOMAIN g[i - 1]) \cup {{roads[i].FromID, roads[i].ToID}} |->
                             IF e = {roads[i].FromID, roads[i].ToID}
                             THEN roads[i].Distance ELSE g[i - 1][e]]
                    ELSE g[i - 1]
       IN  /\ mst_graph' = g[Len(roads)]
           /\ prim_nodes' = UNION DOMAIN g[Len(roads)]
           /\ mstpc' = IF DOMAIN g[Len(roads)] = {} THEN "warned" ELSE "start"
    /\ UNCHANGED <<visited, frontier, prim_mst, total_dist, mapVars>>
    /\ MstFrame

\* a variant that pops any entry of the frontier
PrimTopAny(fr) == fr

\* the entries heappop may return: those of least weight
PrimTop(fr) == {x \in fr : \A y \in fr : x[1] <= y[1]}

\* u = nodes.pop(); visited = {u}; the edges at u are pushed
PrimStart ==
    /\ mstpc = "start" /\ prim_nodes # {}
    /\ \E u \in prim_nodes :
          /\ prim_nodes' = prim_nodes \ {u}
          /\ visited' = {u}
          /\ frontier' = {<<mst_graph[{u, v}], u, v>> :
                             v \in {n \in MapIds \ {u} : {u, n} \in DOMAIN mst_graph}}
    /\ mstpc' = "pop"
    /\ UNCHANGED <<mst_graph, prim_mst, total_dist, mapVars>>
    /\ MstFrame

\* W, _, u, v, d = pop(frontier): skipped when v was visited, else the edge
\* is yielded and the edges at v to unvisited nodes are pushed
PrimPop ==
    /\ mstpc = "pop" /\ prim_nodes # {} /\ frontier # {}
    /\ \E x \in PrimTop(frontier) :
          IF x[3] \in visited \/ x[3] \notin prim_nodes
          THEN /\ frontier' = frontier \ {x}
               /\ UNCHANGED <<prim_nodes, visited, prim_mst>>
          ELSE /\ prim_mst' = prim_mst \cup {{x[2], x[3]}}
               /\ visited' = visited \cup {x[3]}
               /\ prim_nodes' = prim_nodes \ {x[3]}
               /\ frontier' = (frontier \ {x}) \cup
                      {<<mst_graph[{x[3], w}], x[3], w>> :
                          w \in {n \in MapIds \ visited :
                                    n # x[3] /\ {x[3], n} \in DOMAIN mst_graph}}
    /\ UNCHANGED <<mst_graph, total_dist, mstpc, mapVars>>
    /\ MstFrame

\* "while nodes and frontier" is over: back to "while nodes"
PrimNext ==
    /\ mstpc = "pop" /\ (prim_nodes = {} \/ frontier = {})
    /\ mstpc' = "start"
    /\ UNCHANGED <<mst_graph, prim_nodes, visited, frontier, prim_mst, total_dist, mapVars>>
    /\ MstFrame

\* total_dist = sum(mst_graph[u][v]['weight'] for u, v in prim_mst.edges())
MstTotal ==
    /\ mstpc = "start" /\ prim_nodes = {}
    /\ total_dist' = SumOver(mst_graph, prim_mst)
    /\ mstpc' = "done"
    /\ UNCHANGED <<mst_graph, prim_nodes, visited, frontier, prim_mst, mapVars>>
    /\ MstFrame

NextMst ==
    \/ MstBuildGraph
    \/ PrimStart
    \/ PrimPop
    \/ PrimNext
    \/ MstTotal

SpecMst == InitMst /\ [][NextMst]_vars

\* the nodes the edges of T join to a
JoinedTo(T, a) ==
    LET r[k \in 0..Cardinality(MapIds)] ==
            IF k = 0 THEN {a}
            ELSE r[k - 1] \cup UNION {e \in T : e \cap r[k - 1] # {}}
    IN  r[Cardinality(MapIds)]

\* T is a spanning tree of each connected component of the graph g
SpanningForest(T, g) ==
    /\ T \subseteq DOMAIN g
    /\ \A a \in UNION DOMAIN g : JoinedTo(T, a) = JoinedTo(DOMAIN g, a)
    /\ Cardinality(T) = Cardinality(UNION DOMAIN g) -
                        Cardinality({JoinedTo(DOMAIN g, a) : a \in UNION DOMAIN g})

\* C16: the MST view is computed on the graph of the road records whose two
\* endpoints are both neighbourhood ids (roads touching a facility are
\* excluded); its result is a spanning tree of each connected component
\* (edge count = nodes - components) whose total distance is minimal among
\* all spanning trees, e.g. total 7 with 2 edges on {(1,2,5),(2,3,3),(1,3,4)}.
C16_MstIsMinimalSpanningForest ==
    (mstpc = "done") =>
        /\ DOMAIN mst_graph =
               {{roads[i].FromID, roads[i].ToID} :
                   i \in {j \in 1..Len(roads) : /\ roads[j].FromID \in neighborhoods
                                                /\ roads[j].ToID \in neighborhoods}}
        /\ \A e \in DOMAIN mst_graph : e \cap facilities = {}
        /\ SpanningForest(prim_mst, mst_graph)
        /\ total_dist = SumOver(mst_graph, prim_mst)
        /\ \A T \in SUBSET DOMAIN mst_graph :
              SpanningForest(T, mst_graph) => total_dist <= SumOver(mst_graph, T)
        /\ (mst_graph = ({1, 2} :> 5) @@ ({2, 3} :> 3) @@ ({1, 3} :> 4)) =>
              (total_dist = 7 /\ Cardinality(prim_mst) = 2)

\* the view is done on the triangle of the example: one road is left out
C16_Witness ==
    /\ mstpc = "done"
    /\ mst_graph = ({1, 2} :> 5) @@ ({2, 3} :> 3) @@ ({1, 3} :> 4)
    /\ prim_mst = {{2, 3}, {1, 3}}
    /\ total_dist = 7

(***************************************************************************)
(* find_transit_route (controller/controller.py): the transit multigraph   *)
(* of the schedules, the path of networkx's shortest_path on it, and the   *)
(* details of the route.  transit_graph gives, for a pair of stops, the    *)
(* edges between them in the order add_edge made them (the edge of key 0   *)
(* first); the traffic-light attributes of an edge, which no weight, wait  *)
(* or fare reads, are left out.  Times are in 1/TimeScale minutes.         *)
(***************************************************************************)
TimeScale == 4

MaxBusRoutes == 1

MaxLines == 2

MaxLegs == 25

MaxChanges == 2

\* the keys of self.node_positions
KnownLocations == {1, 2, 3, 4}

\* travel_time = max(5, (distance / 30) * 60) by bus and max(3, (distance /
\* 60) * 60) by metro, for stops a and b that lie |a - b| km apart
TravelTime(mode, a, b) ==
    LET distance == IF a > b THEN a - b ELSE b - a
    IN  IF mode = "bus" THEN Max(5, 2 * distance) ELSE Max(3, distance)

\* a variant that links every two known locations by a bus edge
BuildCompleteNetwork(sched) ==
    [e \in {{a, b} : a \in KnownLocations, b \in KnownLocations} |->
        <<[type |-> "bus", route_id |-> "B1", interval |-> 15, travel_time |-> 5]>>]

\* _build_transit_network: per pair of stops the bus edges, then the metro
\* edges (each added in both directions), and a transfer self-loop at a stop
\* that more than one route serves
BuildTransitNetwork(sched) ==
    LET BusData(r, i) ==
            [type |-> "bus", route_id |-> r.Route, interval |-> r.Interval,
             travel_time |-> TravelTime("bus", r.Stops[i], r.Stops[i + 1])]
        MetroData(r, i) ==
            [type |-> "metro", route_id |-> r.Line, interval |-> r.Interval,
             travel_time |-> TravelTime("metro", r.Stations[i], r.Stations[i + 1])]
        BusEdges(e) ==
            LET h[k \in 0..Len(sched.bus_schedules)] ==
                    IF k = 0 THEN <<>>
                    ELSE LET r == sched.bus_schedules[k]
                             f[i \in 0..Max(0, Len(r.Stops) - 1)] ==
                                 IF i = 0 THEN <<>>
                                 ELSE f[i - 1] \o
                                      (IF {r.Stops[i], r.Stops[i + 1]} = e
                                       THEN <<BusData(r, i), BusData(r, i)>> ELSE <<>>)
                         IN  h[k - 1] \o f[Max(0, Len(r.Stops) - 1)]
            IN  h[Len(sched.bus_schedules)]
        MetroEdges(e) ==
            LET h[k \in 0..Len(sched.metro_schedules)] ==
                    IF k = 0 THEN <<>>
                    ELSE LET r == sched.metro_schedules[k]
                             f[i \in 0..Max(0, Len(r.Stations) - 1)] ==
                                 IF i = 0 THEN <<>>
                                 ELSE f[i - 1] \o
                                      (IF {r.Stations[i], r.Stations[i + 1]} = e
                                       THEN <<MetroData(r, i), MetroData(r, i)>> ELSE <<>>)
                         IN  h[k - 1] \o f[Max(0, Len(r.Stations) - 1)]
            IN  h[Len(sched.metro_schedules)]
        all_stops ==
            UNION ({{r.Stops[i] : i \in DOMAIN r.Stops} :
                       r \in {sched.bus_schedules[k] : k \in DOMAIN sched.bus_schedules}} \cup
                   {{r.Stations[i] : i \in DOMAIN r.Stations} :
                       r \in {sched.metro_schedules[k] : k \in DOMAIN sched.metro_schedules}})
        routes_at_stop(stop) ==
            Cardinality({k \in DOMAIN sched.bus_schedules :
                            \E i \in DOMAIN sched.bus_schedules[k].Stops :
                                sched.bus_schedules[k].Stops[i] = stop}) +
            Cardinality({k \in DOMAIN sched.metro_schedules :
                            \E i \in DOMAIN sched.metro_schedules[k].Stations :
                                sched.metro_schedules[k].Stations[i] = stop})
        Edges(e) ==
            IF Cardinality(e) = 1
            THEN IF routes_at_stop(CHOOSE n \in e : TRUE) > 1
                 THEN <<[type |-> "transfer", route_id |-> "Transfer at",
                         interval |-> 5, travel_time |-> 10]>>
                 ELSE <<>>
            ELSE BusEdges(e) \o MetroEdges(e)
    IN  [e \in {d \in {{a, b} : a \in all_stops, b \in all_stops} : Edges(d) # <<>>} |->
            Edges(e)]

\* a variant whose penalty falls on the edges of every type
EdgeWeightPenaltyAll(data, minimize) ==
    LET base_time == TimeScale * data.travel_time + (TimeScale \div 2) * data.interval
        preferred == IF prefer_metro /\ data.type = "bus"
                     THEN (3 * base_time) \div 2 ELSE base_time
    IN  IF minimize THEN 2 * preferred ELSE preferred

\* edge_weight of _find_optimal_path, for a value of minimize_transfers
EdgeWeightWith(data, minimize) ==
    LET base_time == TimeScale * data.travel_time + (TimeScale \div 2) * data.interval
        preferred == IF prefer_metro /\ data.type = "bus"
                     THEN (3 * base_time) \div 2 ELSE base_time
    IN  IF minimize /\ data.type = "transfer" THEN 2 * preferred ELSE preferred

\* edge_weight under the minimize_transfers of the call
EdgeWeight(data) == EdgeWeightWith(data, minimize_transfers)

\* the paths of the graph g from a to b that visit no stop twice
RoutePaths(g, a, b) ==
    {p \in UNION {[1..k -> UNION DOMAIN g] : k \in 1..Cardinality(UNION DOMAIN g)} :
        /\ p[1] = a /\ p[Len(p)] = b
        /\ \A i, j \in 1..Len(p) : i # j => p[i] # p[j]
        /\ \A i \in 1..(Len(p) - 1) : {p[i], p[i + 1]} \in DOMAIN g}

\* the weight shortest_path gives a path: weight=lambda u, v, d:
\* edge_weight(u, v, d[0]), the edge of key 0 between the two stops of a hop
PathWeight(g, p) == PathSum(p, LAMBDA u, v : EdgeWeight(g[{u, v}][1]))

\* the stop lists of a route, each taken in one of its two directions: two
\* of the known locations, or the first three in some order
StopLists ==
    {l \in [1..2 -> KnownLocations] \cup [1..3 -> {1, 2, 3}] :
        /\ l[1] < l[Len(l)]
        /\ \A i, j \in 1..Len(l) : i # j => l[i] # l[j]}

InitRoute ==
    /\ AllocIdle /\ SearchIdle /\ HospitalIdle /\ TransitIdle /\ MapIdle /\ MstIdle
    /\ \E bus \in UNION {[1..k -> StopLists] : k \in 0..MaxBusRoutes},
          metro \in UNION {[1..k -> StopLists] : k \in 0..MaxLines},
          \* the rows of a table may repeat an id
          repeated \in BOOLEAN :
          /\ repeated => Len(metro) >= 2
          /\ schedules =
              [bus_schedules |->
                   [k \in DOMAIN bus |->
                       [Route |-> <<"B1", "B2", "B3">>[k], Stops |-> bus[k], Interval |-> 15]],
               metro_schedules |->
                   [k \in DOMAIN metro |->
                       [Line |-> IF repeated THEN "M1" ELSE <<"M1", "M2", "M3">>[k],
                        Stations |-> metro[k], Interval |-> 10]]]
    /\ source \in {1, 4}
    /\ destination \in {1, 2, 3, 4, 5}
    /\ prefer_metro \in BOOLEAN
    /\ minimize_transfers \in BOOLEAN
    /\ transit_graph = <<>> /\ path = <<>> /\ steps = <<>>
    /\ total_travel_time = 0 /\ total_waiting_time = 0 /\ total_cost = 0
    /\ num_transfers = 0 /\ current_line = "" /\ current_mode = ""
    /\ stops_in_current_metro_journey = 0
    /\ rpc = "call"

\* all_stops = self._build_transit_network(transit_graph, schedules, ...),
\* once source and destination are found in self.node_positions
RouteBuild ==
    /\ rpc = "call"
    /\ source \in KnownLocations /\ destination \in KnownLocations
    /\ transit_graph' = BuildTransitNetwork(schedules)
    /\ rpc' = "built"
    /\ UNCHANGED <<schedules, source, destination, prefer_metro, minimize_transfers,
                   path, steps, total_travel_time, total_waiting_time, total_cost,
                   num_transfers, current_line, current_mode,
                   stops_in_current_metro_journey>>
    /\ RouteFrame

\* the ValueError of an unknown location, of has_path on a stop that is not
\* a node of the graph (NodeNotFound) and of "No route available"
RouteRaise ==
    /\ \/ /\ rpc = "call"
          /\ (source \notin KnownLocations \/ destination \notin KnownLocations)
       \/ /\ rpc = "built"
          /\ \/ source \notin UNION DOMAIN transit_graph
             \/ destination \notin UNION DOMAIN transit_graph
             \/ RoutePaths(transit_graph, source, destination) = {}
    /\ rpc' = "raised"
    /\ UNCHANGED <<schedules, source, destination, prefer_metro, minimize_transfers,
                   transit_graph, path, steps, total_travel_time, total_waiting_time,
                   total_cost, num_transfers, current_line, current_mode,
                   stops_in_current_metro_journey>>
    /\ RouteFrame

\* a variant that accepts a path of any length
TooShortNever(p) == FALSE

\* len(path) < 2
TooShort(p) == Len(p) < 2

\* path = self._find_optimal_path(...), a path of least weight, and
\* "Path must contain at least 2 stops"
RouteFindPath ==
    /\ rpc = "built"
    /\ source \in UNION DOMAIN transit_graph
    /\ destination \in UNION DOMAIN transit_graph
    /\ \E p \in RoutePaths(transit_graph, source, destination) :
          /\ \A q \in RoutePaths(transit_graph, source, destination) :
                PathWeight(transit_graph, p) <= PathWeight(transit_graph, q)
          /\ path' = p
          /\ rpc' = IF TooShort(p) THEN "raised" ELSE "details"
    /\ UNCHANGED <<schedules, source, destination, prefer_metro, minimize_transfers,
                   transit_graph, steps, total_travel_time, total_waiting_time,
                   total_cost, num_transfers, current_line, current_mode,
                   stops_in_current_metro_journey>>
    /\ RouteFrame

\* a variant that makes the rider wait at every leg
BoardsAlways(i, edge_data) == TRUE

\* i == 0 or (current_line and current_line != edge_data["route_id"])
Boards(i, edge_data) ==
    i = 0 \/ (current_line # "" /\ current_line # edge_data.route_id)

\* a variant that adds nothing to the metro fare
MetroStepNone(stops) == 0

\* the fare the metro journey gains at its 10th, 17th and 24th stop
MetroStep(stops) ==
    IF stops = 10 THEN 2 ELSE IF stops = 17 THEN 5 ELSE IF stops = 24 THEN 5 ELSE 0

\* a variant in which a later leg never counts as an entry into the metro
EntersMetroNever(i, edge_data) == FALSE

\* a new segment (i > 0) by metro with current_mode != "metro": the stops
\* counter is reset and the base fare added
EntersMetro(i, edge_data) ==
    /\ Boards(i, edge_data) /\ i > 0
    /\ edge_data.type = "metro" /\ current_mode # "metro"

\* one iteration of the loop of _calculate_route_details, on the edge of the
\* hop (total_distance, which is not part of the fare or the times, left out)
RouteLeg(edge_data) ==
    LET i == Len(steps)
        transport_mode == edge_data.type
        boards == Boards(i, edge_data)
        wait_time == IF boards THEN (TimeScale \div 2) * edge_data.interval ELSE 0
        enters_metro == EntersMetro(i, edge_data)
        new_segment == IF boards /\ i > 0
                       THEN IF transport_mode = "bus" THEN 12
                            ELSE IF enters_metro THEN 8 ELSE 0
                       ELSE 0
        first_segment == IF i = 0
                         THEN IF transport_mode = "bus" THEN 12
                              ELSE IF transport_mode = "metro" THEN 8 ELSE 0
                         ELSE 0
        metro_stops == IF transport_mode = "metro"
                       THEN (IF enters_metro THEN 0 ELSE stops_in_current_metro_journey) + 1
                       ELSE stops_in_current_metro_journey
    IN  /\ total_travel_time' = total_travel_time + TimeScale * edge_data.travel_time
        /\ total_waiting_time' = total_waiting_time + wait_time
        /\ num_transfers' = num_transfers + (IF boards /\ i > 0 THEN 1 ELSE 0)
        /\ current_line' = edge_data.route_id
        /\ current_mode' = transport_mode
        /\ stops_in_current_metro_journey' = metro_stops
        /\ total_cost' = total_cost + new_segment + first_segment +
                         (IF transport_mode = "metro" THEN MetroStep(metro_stops) ELSE 0)
        /\ steps' = Append(steps, [mode |-> transport_mode, route_id |-> edge_data.route_id,
                                   interval |-> edge_data.interval,
                                   travel_time |-> TimeScale * edge_data.travel_time,
                                   wait_time |-> wait_time])

\* the iteration for hop i of the path: edge_data = graph[path[i]][path[i + 1]][0]
DetailsOfPath ==
    /\ rpc = "details"
    /\ Len(steps) < Len(path) - 1
    /\ RouteLeg(transit_graph[{path[Len(steps) + 1], path[Len(steps) + 2]}][1])
    /\ UNCHANGED <<schedules, source, destination, prefer_metro, minimize_transfers,
                   transit_graph, path, rpc>>
    /\ RouteFrame

\* return {"total_travel_time": ..., "steps": steps}
RouteReturn ==
    /\ \/ rpc = "details" /\ Len(steps) = Len(path) - 1
       \/ rpc = "legs" /\ Len(steps) >= 1
    /\ rpc' = "returned"
    /\ UNCHANGED <<schedules, source, destination, prefer_metro, minimize_transfers,
                   transit_graph, path, steps, total_travel_time, total_waiting_time,
                   total_cost, num_transfers, current_line, current_mode,
                   stops_in_current_metro_journey>>
    /\ RouteFrame

NextRoute ==
    \/ RouteBuild
    \/ RouteRaise
    \/ RouteFindPath
    \/ DetailsOfPath
    \/ RouteReturn

SpecRoute == InitRoute /\ [][NextRoute]_vars

(***************************************************************************)
(* _calculate_route_details on a path of up to MaxLegs hops with at most   *)
(* MaxChanges changes of line, read one hop at a time: the edge of a hop   *)
(* is an edge of bus route B1 or of metro line M1 or M2                    *)
(***************************************************************************)
InitDetails ==
    /\ AllocIdle /\ SearchIdle /\ HospitalIdle /\ TransitIdle /\ MapIdle /\ MstIdle
    /\ schedules = <<>> /\ source = None /\ destination = None
    /\ prefer_metro = FALSE /\ minimize_transfers = FALSE
    /\ transit_graph = <<>> /\ path = <<>> /\ steps = <<>>
    /\ total_travel_time = 0 /\ total_waiting_time = 0 /\ total_cost = 0
    /\ num_transfers = 0 /\ current_line = "" /\ current_mode = ""
    /\ stops_in_current_metro_journey = 0
    /\ rpc = "legs"

DetailsOfLegs ==
    /\ rpc = "legs"
    /\ Len(steps) < MaxLegs
    /\ \E edge_data \in {[type |-> "bus", route_id |-> "B1", interval |-> 15,
                          travel_time |-> 5]} \cup
                        {[type |-> "metro", route_id |-> l, interval |-> 10,
                          travel_time |-> 3] : l \in {"M1", "M2"}} :
          /\ (Len(steps) = 0 \/ edge_data.route_id = current_line
                             \/ num_transfers < MaxChanges)
          /\ RouteLeg(edge_data)
    /\ UNCHANGED <<schedules, source, destination, prefer_metro, minimize_transfers,
                   transit_graph, path, rpc>>
    /\ RouteFrame

NextDetails ==
    \/ DetailsOfLegs
    \/ RouteReturn

SpecDetails == InitDetails /\ [][NextDetails]_vars

\* the pairs of stops that follow one another in a route of the schedules
AdjacentStops ==
    UNION ({{{r.Stops[i], r.Stops[i + 1]} : i \in 1..(Len(r.Stops) - 1)} :
               r \in {schedules.bus_schedules[k] : k \in DOMAIN schedules.bus_schedules}} \cup
           {{{r.Stations[i], r.Stations[i + 1]} : i \in 1..(Len(r.Stations) - 1)} :
               r \in {schedules.metro_schedules[k] : k \in DOMAIN schedules.metro_schedules}})

\* source or destination is no stop of a route, or no chain of adjacent
\* stops leads from the one to the other
BadEndpoints ==
    \/ source \notin UNION AdjacentStops
    \/ destination \notin UNION AdjacentStops
    \/ destination \notin JoinedTo(AdjacentStops, source)

\* C17: find_transit_route never returns an itinerary, and fails with an
\* error instead, whenever source or destination is not a node of the
\* transit graph or the two lie in different connected components of it.
C17_NoItineraryForBadEndpoints ==
    (rpc \in {"raised", "details", "returned"} /\ BadEndpoints) =>
        (rpc = "raised" /\ path = <<>> /\ steps = <<>>)

\* the call has failed for two stops of the graph that no chain of hops joins
C17_Witness ==
    /\ rpc = "raised"
    /\ source \in UNION AdjacentStops
    /\ destination \in UNION AdjacentStops
    /\ destination \notin JoinedTo(AdjacentStops, source)
    /\ transit_graph # <<>>

\* the distinct (mode, route id) pairs of the schedule entries that hold stop
ServingRoutes(stop) ==
    {<<"bus", schedules.bus_schedules[k].Route>> :
        k \in {j \in DOMAIN schedules.bus_schedules :
                  \E i \in DOMAIN schedules.bus_schedules[j].Stops :
                      schedules.bus_schedules[j].Stops[i] = stop}} \cup
    {<<"metro", schedules.metro_schedules[k].Line>> :
        k \in {j \in DOMAIN schedules.metro_schedules :
                  \E i \in DOMAIN schedules.metro_schedules[j].Stations :
                      schedules.metro_schedules[j].Stations[i] = stop}}

\* C26: after _build_transit_network a stop carries a self-loop of type
\* "transfer" with interval 5 and travel_time 10 if and only if at least 2
\* distinct (mode, route id) entries of the schedules serve it.
C26_TransferLoopIffTwoRoutes ==
    (rpc = "built") =>
        \A stop \in KnownLocations :
            (/\ {stop} \in DOMAIN transit_graph
             /\ \E k \in DOMAIN transit_graph[{stop}] :
                   /\ transit_graph[{stop}][k].type = "transfer"
                   /\ transit_graph[{stop}][k].interval = 5
                   /\ transit_graph[{stop}][k].travel_time = 10)
            <=> (Cardinality(ServingRoutes(stop)) >= 2)

\* the walks of the transit graph from source to destination, transfer loops
\* included, of at most one hop more than there are stops
Walks ==
    {p \in UNION {[1..k -> UNION DOMAIN transit_graph] :
                     k \in 1..(Cardinality(UNION DOMAIN transit_graph) + 1)} :
        /\ p[1] = source /\ p[Len(p)] = destination
        /\ \A i \in 1..(Len(p) - 1) : {p[i], p[i + 1]} \in DOMAIN transit_graph}

\* the weight of a walk when minimize_transfers is minimize
WalkWeight(p, minimize) ==
    PathSum(p, LAMBDA u, v : EdgeWeightWith(transit_graph[{u, v}][1], minimize))

C30_SameStopFails ==
    (/\ source = destination
     /\ source \in UNION AdjacentStops
     /\ rpc \notin {"call", "built"}) =>
        /\ rpc = "raised"
        /\ path = <<source>>
        /\ steps = <<>>

\* the call has failed on the one-node path of a stop that has a transfer loop
C30_Witness ==
    /\ rpc = "raised"
    /\ source = destination
    /\ path = <<source>>
    /\ {source} \in DOMAIN transit_graph

\* the least weight of a bus or metro edge between the stops u and v
TypedWeight(u, v) ==
    LET ws == {EdgeWeight(transit_graph[{u, v}][k]) :
                  k \in {j \in DOMAIN transit_graph[{u, v}] :
                            transit_graph[{u, v}][j].type \in {"bus", "metro"}}}
    IN  CHOOSE m \in ws : \A y \in ws : m <= y

\* C18: the path the route finder returns minimises the sum of per-hop
\* weights, every bus or metro edge between the two stops of a hop being a
\* candidate, with weight travel_time + interval/2, times 1.5 for a bus edge
\* under prefer_metro; so when a bus edge and a cheaper metro edge link two
\* stops, the weight of the metro edge is the one that counts.
C18_PathMinimisesTypedWeights ==
    (rpc \in {"details", "returned"} /\ path # <<>>) =>
        \A q \in RoutePaths(transit_graph, source, destination) :
            PathSum(path, TypedWeight) <= PathSum(q, TypedWeight)

\* C19: in every itinerary leg i has wait_time = interval/2 of its edge
\* exactly when it is the first leg or its route id differs from the route
\* id of the leg before, and wait_time = 0 otherwise; total_waiting_time is
\* the sum of the wait times of the legs.
C19_WaitTimes ==
    LET waits[i \in 0..Len(steps)] ==
            IF i = 0 THEN 0 ELSE waits[i - 1] + steps[i].wait_time
    IN  /\ \A i \in 1..Len(steps) :
              steps[i].wait_time =
                  IF i = 1 \/ steps[i].route_id # steps[i - 1].route_id
                  THEN (TimeScale * steps[i].interval) \div 2
                  ELSE 0
        /\ total_waiting_time = waits[Len(steps)]

\* a returned itinerary with a leg that stays on the line of the leg before
\* and a later leg that changes line
C19_Witness ==
    /\ rpc = "returned"
    /\ \E i, j \in 2..Len(steps) :
          /\ i < j
          /\ steps[i].route_id = steps[i - 1].route_id /\ steps[i].wait_time = 0
          /\ steps[j].route_id # steps[j - 1].route_id /\ steps[j].wait_time > 0

\* C20: the total fare of a metro-only itinerary depends on the number of
\* stops travelled alone and never decreases with it: the base fare 8, plus
\* 2 once the 10th consecutive metro stop is reached, plus 5 at the 17th,
\* plus 5 at the 24th; so 25 stops cost strictly more than 9.
C20_MetroFareSteps ==
    (steps # <<>> /\ \A i \in 1..Len(steps) : steps[i].mode = "metro") =>
        /\ total_cost = 8 + (IF Len(steps) >= 10 THEN 2 ELSE 0)
                          + (IF Len(steps) >= 17 THEN 5 ELSE 0)
                          + (IF Len(steps) >= 24 THEN 5 ELSE 0)
        /\ (Len(steps) >= 24) => (total_cost > 8)

\* a returned metro-only itinerary of 24 stops over two lines, at fare 20
C20_Witness ==
    /\ rpc = "returned"
    /\ Len(steps) = 24
    /\ \A i \in 1..Len(steps) : steps[i].mode = "metro"
    /\ \E i \in 2..Len(steps) : steps[i].route_id # steps[i - 1].route_id
    /\ total_cost = 20

\* C21: in an itinerary of bus and metro legs each boarding of a bus (the
\* first leg, or a later bus leg on another route than the leg before) adds
\* exactly 12 to the fare, and each entry into the metro (at the start or
\* from a leg that is not metro) adds the base fare 8 and restarts the count
\* of consecutive metro stops, so that the increments at the 10th, 17th and
\* 24th stop are earned per metro section and never carried over.
C21_MixedFare ==
    LET run[i \in 0..Len(steps)] ==
            IF i = 0 \/ steps[i].mode # "metro" THEN 0
            ELSE IF i = 1 \/ steps[i - 1].mode # "metro" THEN 1 ELSE run[i - 1] + 1
        fare[i \in 0..Len(steps)] ==
            IF i = 0 THEN 0
            ELSE fare[i - 1]
                 + (IF steps[i].mode = "bus" /\
                       (i = 1 \/ steps[i].route_id # steps[i - 1].route_id)
                    THEN 12 ELSE 0)
                 + (IF steps[i].mode = "metro" /\ (i = 1 \/ steps[i - 1].mode # "metro")
                    THEN 8 ELSE 0)
                 + (IF run[i] = 10 THEN 2 ELSE IF run[i] \in {17, 24} THEN 5 ELSE 0)
    IN  /\ total_cost = fare[Len(steps)]
        /\ stops_in_current_metro_journey =
               IF steps # <<>> /\ steps[Len(steps)].mode = "metro"
               THEN run[Len(steps)] ELSE stops_in_current_metro_journey

\* a returned itinerary with ten metro stops, a bus leg and metro again, at
\* fare 8 + 2 + 12 + 8
C21_Witness ==
    /\ rpc = "returned"
    /\ Len(steps) = 12
    /\ \A i \in 1..10 : steps[i].mode = "metro"
    /\ steps[11].mode = "bus" /\ steps[12].mode = "metro"
    /\ stops_in_current_metro_journey = 1
    /\ total_cost = 30

(***************************************************************************)
(* PublicTransitOptimizer._dp_allocate                                     *)
(***************************************************************************)
RouteId(i) == values[i][1]

RouteValue(i) == values[i][2]

\* value * min(alloc, 10)
CurrentValue(value, alloc) == value * Min(alloc, ReturnsCap)

\* for alloc in range(min_units, max_possible + 1): the running dp[i][u],
\* replaced whenever dp[i-1][u-alloc] + current_value is strictly greater
RECURSIVE DpFold(_, _, _, _, _, _)
DpFold(prevRow, value, u, alloc, maxPossible, running) ==
    IF alloc > maxPossible THEN running
    ELSE LET cand == prevRow[u - alloc] + CurrentValue(value, alloc)
         IN  DpFold(prevRow, value, u, alloc + 1, maxPossible,
                    IF cand > running THEN cand ELSE running)

\* row i of the table, from row i-1
DpRow(prevRow, value) ==
    [u \in 0..max_units |->
        DpFold(prevRow, value, u, min_units, Min(u, max_per_route), 0)]

\* for alloc in range(min(remaining, max_per_route), min_units-1, -1): the
\* first alloc whose value explains dp[i][remaining]; -1 stands for the
\* loop ending without a break (the for-else branch)
RECURSIVE BacktrackFold(_, _, _)
BacktrackFold(i, rem, alloc) ==
    IF alloc < min_units THEN -1
    ELSE IF dp[i][rem] = dp[i-1][rem - alloc] + CurrentValue(RouteValue(i), alloc)
         THEN alloc
         ELSE BacktrackFold(i, rem, alloc - 1)

\* a variant that forgets the per-route maximum
BacktrackStartUncapped(rem) == rem

BacktrackStart(rem) == Min(rem, max_per_route)

BacktrackAlloc(i, rem) == BacktrackFold(i, rem, BacktrackStart(rem))

\* allocation[route_id] = units
SetAllocation(a, id, units) ==
    [k \in (DOMAIN a) \cup {id} |-> IF k = id THEN units ELSE a[k]]

InitAlloc ==
    /\ SearchIdle /\ HospitalIdle /\ TransitIdle /\ MapIdle /\ MstIdle /\ RouteIdle
    /\ \E n \in 0..MaxRoutes :
         \E vs \in [1..n -> 0..MaxValue] :
            values = [i \in 1..n |-> <<i, vs[i]>>]
    /\ max_units \in 0..MaxUnits
    /\ max_per_route \in 0..MaxPerRoute
    /\ min_units \in 0..max_per_route
    /\ dp = [i \in 0..Len(values) |-> [u \in 0..max_units |-> 0]]
    /\ allocation = <<>>
    /\ remaining = max_units
    /\ ai = 1
    /\ apc = "table"

\* one iteration of "for i in range(1, n + 1)"
BuildRow ==
    /\ apc = "table"
    /\ ai <= Len(values)
    /\ dp' = [dp EXCEPT ![ai] = DpRow(dp[ai - 1], RouteValue(ai))]
    /\ ai' = ai + 1
    /\ UNCHANGED <<values, max_units, min_units, max_per_route, allocation, remaining, apc>>
    /\ AllocFrame

\* remaining = max_units, entering "for i in range(n, 0, -1)"
StartBacktrack ==
    /\ apc = "table"
    /\ ai > Len(values)
    /\ remaining' = max_units
    /\ ai' = Len(values)
    /\ apc' = "backtrack"
    /\ UNCHANGED <<values, max_units, min_units, max_per_route, dp, allocation>>
    /\ AllocFrame

\* an iteration of the backtracking that breaks out of the inner loop
BacktrackFound ==
    /\ apc = "backtrack"
    /\ ai >= 1
    /\ BacktrackAlloc(ai, remaining) # -1
    /\ allocation' = SetAllocation(allocation, RouteId(ai), BacktrackAlloc(ai, remaining))
    /\ remaining' = remaining - BacktrackAlloc(ai, remaining)
    /\ ai' = ai - 1
    /\ UNCHANGED <<values, max_units, min_units, max_per_route, dp, apc>>
    /\ AllocFrame

\* an iteration of the backtracking that takes the for-else branch
BacktrackFallback ==
    /\ apc = "backtrack"
    /\ ai >= 1
    /\ BacktrackAlloc(ai, remaining) = -1
    /\ allocation' = SetAllocation(allocation, RouteId(ai), min_units)
    /\ remaining' = remaining - min_units
    /\ ai' = ai - 1
    /\ UNCHANGED <<values, max_units, min_units, max_per_route, dp, apc>>
    /\ AllocFrame

\* return allocation
ReturnAllocation ==
    /\ apc = "backtrack"
    /\ ai = 0
    /\ apc' = "done"
    /\ UNCHANGED <<values, max_units, min_units, max_per_route, dp, allocation, remaining, ai>>
    /\ AllocFrame

NextAlloc ==
    \/ BuildRow
    \/ StartBacktrack
    \/ BacktrackFound
    \/ BacktrackFallback
    \/ ReturnAllocation

SpecAlloc == InitAlloc /\ [][NextAlloc]_vars

(***************************************************************************)
(* Properties of _dp_allocate                                              *)
(***************************************************************************)
AllocationSum == SumOver(allocation, DOMAIN allocation)

RouteIds == {RouteId(i) : i \in 1..Len(values)}

\* the allocations that respect every constraint of the request
FeasibleAllocations ==
    {f \in [1..Len(values) -> min_units..max_per_route] :
        SumOver(f, 1..Len(values)) <= max_units}

TotalValue(f) ==
    SumOver([i \in 1..Len(values) |-> CurrentValue(RouteValue(i), f[i])], 1..Len(values))

\* C1: the returned allocation never hands out more than max_units units
\* in total.
C1_SumWithinBudget ==
    apc = "done" => AllocationSum <= max_units

\* C2: the returned allocation has exactly one entry per input route id,
\* and every entry lies between min_units and max_per_route.
C2_OneEntryPerRouteWithinLimits ==
    apc = "done" =>
        /\ DOMAIN allocation = RouteIds
        /\ \A k \in DOMAIN allocation :
              min_units <= allocation[k] /\ allocation[k] <= max_per_route

\* a finished call on two or more routes in which some route got strictly
\* more than the minimum and strictly less than the maximum
C2_Witness ==
    /\ apc = "done"
    /\ Len(values) >= 2
    /\ \E k \in DOMAIN allocation :
          min_units < allocation[k] /\ allocation[k] < max_per_route
    /\ \E k \in DOMAIN allocation : allocation[k] = min_units

\* C3: whenever a feasible allocation exists, the returned allocation is
\* feasible and its total value is the maximum over the feasible ones.
C3_AllocationMaximisesValue ==
    (apc = "done" /\ FeasibleAllocations # {}) =>
        /\ AllocationSum <= max_units
        /\ \A f \in FeasibleAllocations :
              TotalValue(f) <= TotalValue([i \in 1..Len(values) |-> allocation[RouteId(i)]])

\* C22: when max_units is smaller than min_units times the number of routes
\* the allocation call fails with an error and returns no allocation.
C22_InfeasibleRequestFails ==
    (max_units < min_units * Len(values)) => (apc # "done")

\* C27: whenever the request is feasible (number of routes times min_units
\* <= max_units, and min_units <= max_per_route) the backtracking, with its
\* forced-minimum fallback, never overruns the budget: remaining never
\* becomes negative and the returned allocation sums to at most max_units.
C27_FeasibleNeverOverruns ==
    (Len(values) * min_units <= max_units /\ min_units <= max_per_route) =>
        /\ remaining >= 0
        /\ (apc = "done") => (AllocationSum <= max_units)

====
